---- MODULE Spec2Model ----
(***************************************************************************)
(* A model of the TCSinger2 demo application's utilities:                  *)
(*   utils/audio_utils.py   parse_notes, note_to_midi, normalize_audio,    *)
(*                          generate_silence                               *)
(*   utils/model_loader.py  TCSinger2Model                                 *)
(*                                                                         *)
(* Strings are sequences of characters; a character is a one-character     *)
(* string, except the two non-ASCII characters the model needs, which are  *)
(* written by their code points: "U+00B2" (SUPERSCRIPT TWO) and "U+0663"   *)
(* (ARABIC-INDIC DIGIT THREE).                                             *)
(***************************************************************************)
EXTENDS Integers, Sequences, FiniteSets, TLC

VARIABLES
    pc,           \* "call": the call is about to run; "done": it has returned
    call,         \* the call: its operation and its arguments
    ret,          \* what the call returned, or the exception it raised
    model_path,   \* TCSinger2Model.model_path
    device,       \* TCSinger2Model.device
    model,        \* TCSinger2Model.model
    vae,          \* TCSinger2Model.vae
    vocoder,      \* TCSinger2Model.vocoder
    loaded,       \* history: what the last load_model did ("new" before any)
    temp_dir,     \* TCSinger2DemoApp.temp_dir (None while there is no app)
    req,          \* the synthesize_singing requests: position, inputs, locals
    files         \* the files under temp_dir: path -> what was written

app_vars == <<temp_dir, req, files>>

vars ==
    <<pc, call, ret, model_path, device, model, vae, vocoder, loaded,
      temp_dir, req, files>>

model_fields == <<model_path, device, model, vae, vocoder>>

None == "None"

\* A call returns a value or raises an exception with a message.
Return(v) == [ok |-> TRUE, val |-> v]

Raise(e, m) == [ok |-> FALSE, exc |-> e, msg |-> m]

(***************************************************************************)
(* Python's str methods, on the characters of the model.                   *)
(***************************************************************************)
UpperLetters == <<"A", "B", "C", "D", "E", "F", "G", "H", "R", "S", "T">>

LowerLetters == <<"a", "b", "c", "d", "e", "f", "g", "h", "r", "s", "t">>

AsciiDigits == <<"0", "1", "2", "3", "4", "5", "6", "7", "8", "9">>

\* str.isspace of one character.
isspace(c) == c \in {" ", "\t", "\n"}

\* str.isdecimal of one character (Unicode category Nd): the characters
\* int() accepts as digits.
isdecimal_char(c) == (\E i \in 1..10 : AsciiDigits[i] = c) \/ c = "U+0663"

\* str.isdigit of one character: the decimal digits, and also the characters
\* of Numeric_Type=Digit such as SUPERSCRIPT TWO, which int() rejects.
isdigit_char(c) == isdecimal_char(c) \/ c = "U+00B2"

\* The value int() gives a decimal digit.
digit_value(c) ==
    IF c = "U+0663" THEN 3
    ELSE (CHOOSE i \in 1..10 : AsciiDigits[i] = c) - 1

\* str.lower of one character.
lower_char(c) ==
    IF \E i \in DOMAIN UpperLetters : UpperLetters[i] = c
    THEN LowerLetters[CHOOSE i \in DOMAIN UpperLetters : UpperLetters[i] = c]
    ELSE c

\* str.lower
lower(s) == [i \in 1..Len(s) |-> lower_char(s[i])]

\* str.isdigit: every character is a digit and there is at least one.
isdigit(s) == Len(s) > 0 /\ \A i \in 1..Len(s) : isdigit_char(s[i])

\* The value of a string of decimal digits, most significant first.
RECURSIVE decimal_value(_)
decimal_value(s) ==
    IF Len(s) = 0 THEN 0
    ELSE 10 * decimal_value(SubSeq(s, 1, Len(s) - 1)) + digit_value(s[Len(s)])

\* int(s) for the strings the callers pass: one character (note_to_midi) or
\* a word that passed isdigit (parse_notes). Such a string holds no sign, no
\* underscore and no inner white space, so int() succeeds exactly when every
\* character is a decimal digit, and raises ValueError otherwise.
int_str(s) ==
    IF Len(s) > 0 /\ \A i \in 1..Len(s) : isdecimal_char(s[i])
    THEN Return(decimal_value(s))
    ELSE Raise("ValueError", "invalid literal for int() with base 10")

\* str.strip: leading and trailing white space removed.
RECURSIVE lstrip(_)
lstrip(s) ==
    IF Len(s) > 0 /\ isspace(s[1]) THEN lstrip(Tail(s)) ELSE s

RECURSIVE rstrip(_)
rstrip(s) ==
    IF Len(s) > 0 /\ isspace(s[Len(s)])
    THEN rstrip(SubSeq(s, 1, Len(s) - 1))
    ELSE s

strip(s) == rstrip(lstrip(s))

\* str.split() with no separator: the scan of CPython's split_whitespace.
\* Skip white space, then take characters up to the next white space as one
\* word; stop at the end of the string.
RECURSIVE word_end(_, _)
word_end(s, j) ==
    IF j <= Len(s) /\ ~isspace(s[j]) THEN word_end(s, j + 1) ELSE j

RECURSIVE split_from(_, _)
split_from(s, i) ==
    IF i > Len(s) THEN <<>>
    ELSE IF isspace(s[i]) THEN split_from(s, i + 1)
    ELSE LET j == word_end(s, i)
         IN  <<SubSeq(s, i, j - 1)>> \o split_from(s, j)

split(s) == split_from(s, 1)

(***************************************************************************)
(* parse_notes                                                              *)
(***************************************************************************)
REST == <<"r", "e", "s", "t">>

\* What the loop body appends for one word, or the exception it raises.
parse_note(note) ==
    IF lower(note) = REST THEN Return([type |-> "rest"])
    ELSE IF isdigit(note)
    THEN LET v == int_str(note)
         IN  IF v.ok THEN Return([type |-> "midi", value |-> v.val]) ELSE v
    ELSE Return([type |-> "name", value |-> note])

\* The loop: the words in order; the first exception ends the call.
RECURSIVE parse_loop(_, _)
parse_loop(notes, parsed) ==
    IF Len(notes) = 0 THEN Return(parsed)
    ELSE LET p == parse_note(Head(notes))
         IN  IF p.ok THEN parse_loop(Tail(notes), Append(parsed, p.val))
             ELSE p

parse_notes(notes_str) == parse_loop(split(strip(notes_str)), <<>>)

(***************************************************************************)
(* note_to_midi                                                             *)
(***************************************************************************)
note_map ==
    (<<"C">> :> 0) @@ (<<"C", "#">> :> 1) @@ (<<"D", "b">> :> 1) @@
    (<<"D">> :> 2) @@ (<<"D", "#">> :> 3) @@ (<<"E", "b">> :> 3) @@
    (<<"E">> :> 4) @@ (<<"F">> :> 5) @@ (<<"F", "#">> :> 6) @@
    (<<"G", "b">> :> 6) @@ (<<"G">> :> 7) @@ (<<"G", "#">> :> 8) @@
    (<<"A", "b">> :> 8) @@ (<<"A">> :> 9) @@ (<<"A", "#">> :> 10) @@
    (<<"B", "b">> :> 10) @@ (<<"B">> :> 11)

\* note_to_midi with the octave term octave * 12, which puts C4 at 48.
note_to_midi_octave_from_c0(note_name) ==
    IF Len(note_name) < 2
    THEN Raise("ValueError", "Invalid note name")
    ELSE LET octave == int_str(<<note_name[Len(note_name)]>>)
             note == SubSeq(note_name, 1, Len(note_name) - 1)
         IN  IF ~octave.ok
             THEN Raise("ValueError", "Invalid octave in note name")
             ELSE IF note \notin DOMAIN note_map
             THEN Raise("ValueError", "Invalid note")
             ELSE Return(note_map[note] + octave.val * 12)

\* note_to_midi with the note validated before the octave is parsed.
note_to_midi_note_first(note_name) ==
    IF Len(note_name) < 2
    THEN Raise("ValueError", "Invalid note name")
    ELSE LET octave == int_str(<<note_name[Len(note_name)]>>)
             note == SubSeq(note_name, 1, Len(note_name) - 1)
         IN  IF note \notin DOMAIN note_map
             THEN Raise("ValueError", "Invalid note")
             ELSE IF ~octave.ok
             THEN Raise("ValueError", "Invalid octave in note name")
             ELSE Return(note_map[note] + (octave.val + 1) * 12)

note_to_midi(note_name) ==
    IF Len(note_name) < 2
    THEN Raise("ValueError", "Invalid note name")
    ELSE LET octave == int_str(<<note_name[Len(note_name)]>>)
             note == SubSeq(note_name, 1, Len(note_name) - 1)
         IN  IF ~octave.ok
             THEN Raise("ValueError", "Invalid octave in note name")
             ELSE IF note \notin DOMAIN note_map
             THEN Raise("ValueError", "Invalid note")
             ELSE Return(note_map[note] + (octave.val + 1) * 12)

(***************************************************************************)
(* Floating-point values. A value is a rational n/d in lowest terms, an    *)
(* infinity or NaN; the arithmetic is that of the reals, extended by the   *)
(* IEEE 754 rules for infinities and NaN. Rounding, overflow and underflow *)
(* of finite results are not modelled.                                     *)
(*                                                                         *)
(* A SAMPLE x is held as its signed square sgn(x) * x^2, so that the       *)
(* root-mean-square gain stays rational: with                              *)
(*     rms^2       = mean(x^2)                                             *)
(*     gain_linear = 10^((target - 20 log10 rms) / 20) = 10^(target/20)/rms*)
(* the signed square of x * gain_linear is                                 *)
(*     sgn(x) * x^2 * 10^(target/10) / mean(x^2).                          *)
(* x -> sgn(x) * x^2 is increasing and fixes -1, 0 and 1, so clipping a    *)
(* sample to [-1, 1] is clipping its signed square to [-1, 1].             *)
(***************************************************************************)
RECURSIVE GCD(_, _)
GCD(a, b) == IF b = 0 THEN a ELSE GCD(b, a % b)

Abs(i) == IF i < 0 THEN -i ELSE i

Fin(n, d) ==
    LET g == GCD(Abs(n), d)
    IN  [k |-> "fin", n |-> n \div g, d |-> d \div g]

NaN == [k |-> "nan"]

PosInf == [k |-> "inf", s |-> 1]

NegInf == [k |-> "inf", s |-> -1]

Zero == Fin(0, 1)

One == Fin(1, 1)

MinusOne == Fin(-1, 1)

IsFinite(x) == x.k = "fin"

\* 10^e for an integer e.
RECURSIVE Pow10(_)
Pow10(e) ==
    IF e = 0 THEN One
    ELSE IF e > 0 THEN Fin(10 * Pow10(e - 1).n, 1)
    ELSE Fin(1, 10 * Pow10(e + 1).d)

\* audio ** 2, of one sample: the magnitude of its signed square.
squared(x) ==
    IF x.k = "nan" THEN NaN
    ELSE IF x.k = "inf" THEN PosInf
    ELSE Fin(Abs(x.n), x.d)

RECURSIVE sum_squares(_)
sum_squares(audio) ==
    IF Len(audio) = 0 THEN Zero
    ELSE LET a == squared(Head(audio))
             b == sum_squares(Tail(audio))
         IN  IF a.k = "nan" \/ b.k = "nan" THEN NaN
             ELSE IF a.k = "inf" \/ b.k = "inf" THEN PosInf
             ELSE Fin(a.n * b.d + b.n * a.d, a.d * b.d)

\* np.mean(audio ** 2), which is rms ** 2. The mean of an empty array is NaN.
mean_square(audio) ==
    LET t == sum_squares(audio)
    IN  IF Len(audio) = 0 THEN NaN
        ELSE IF t.k = "fin" THEN Fin(t.n, t.d * Len(audio))
        ELSE t

\* rms > 0 (false of NaN).
positive(ms) == ms.k = "inf" \/ (ms.k = "fin" /\ ms.n > 0)

\* gain_linear ** 2 where rms > 0: 10^(target_level/10) / rms^2, and 0 when
\* rms is infinite (current_db = inf, gain_db = -inf, 10 ** -inf = 0.0).
\* target_level is a multiple of 10 dB.
gain_square(ms, target_level) ==
    IF ms.k = "inf" THEN Zero
    ELSE LET t == Pow10(target_level \div 10)
         IN  Fin(t.n * ms.d, t.d * ms.n)

\* The gain with the sign of current_db wrong,
\* gain_db = target_level + current_db: 10^(target_level/10) * rms^2.
gain_square_sign_error(ms, target_level) ==
    IF ms.k = "inf" THEN PosInf
    ELSE LET t == Pow10(target_level \div 10)
         IN  Fin(t.n * ms.n, t.d * ms.d)

\* sample * gain_linear, for a gain that is finite and >= 0, or infinite.
times_gain(x, g) ==
    IF x.k = "nan" \/ g.k = "nan" THEN NaN
    ELSE IF x.k = "inf"
    THEN IF g.k = "fin" /\ g.n = 0 THEN NaN ELSE x
    ELSE IF g.k = "inf"
    THEN IF x.n = 0 THEN NaN ELSE IF x.n > 0 THEN PosInf ELSE NegInf
    ELSE Fin(x.n * g.n, x.d * g.d)

\* np.clip(x, -1.0, 1.0) of one sample: NaN stays NaN.
clip1(x) ==
    IF x.k = "nan" THEN NaN
    ELSE IF x.k = "inf" THEN (IF x.s > 0 THEN One ELSE MinusOne)
    ELSE IF x.n > x.d THEN One
    ELSE IF x.n < -x.d THEN MinusOne
    ELSE x

clip(audio) == [i \in 1..Len(audio) |-> clip1(audio[i])]

scaled(audio, g) == [i \in 1..Len(audio) |-> times_gain(audio[i], g)]

(***************************************************************************)
(* normalize_audio                                                          *)
(***************************************************************************)
\* normalize_audio without the test rms > 0: a silent buffer gets the gain
\* 10 ** (target - 20 log10(0)) / 20 = inf.
normalize_audio_unguarded(audio, target_level) ==
    LET ms == mean_square(audio)
    IN  IF positive(ms)
        THEN Return(clip(scaled(audio, gain_square(ms, target_level))))
        ELSE IF ms.k = "nan" THEN Return(clip(scaled(audio, NaN)))
        ELSE Return(clip(scaled(audio, PosInf)))

\* normalize_audio with gain_db = target_level + current_db.
normalize_audio_sign_error(audio, target_level) ==
    LET ms == mean_square(audio)
    IN  IF positive(ms)
        THEN Return(clip(scaled(audio,
                                gain_square_sign_error(ms, target_level))))
        ELSE Return(clip(audio))

normalize_audio(audio, target_level) ==
    LET ms == mean_square(audio)
    IN  IF positive(ms)
        THEN Return(clip(scaled(audio, gain_square(ms, target_level))))
        ELSE Return(clip(audio))

(***************************************************************************)
(* generate_silence. A zero-filled array is held as its length and its     *)
(* fill value. Here a value is the number itself, not a signed square.     *)
(***************************************************************************)
\* duration * sr, a float times an int.
times_int(x, i) ==
    IF x.k = "nan" THEN NaN
    ELSE IF x.k = "inf"
    THEN IF i = 0 THEN NaN
         ELSE IF (i > 0) = (x.s > 0) THEN PosInf ELSE NegInf
    ELSE Fin(x.n * i, x.d)

\* int() of a float: towards zero; NaN and the infinities raise.
int_float(x) ==
    IF x.k = "nan"
    THEN Raise("ValueError", "cannot convert float NaN to integer")
    ELSE IF x.k = "inf"
    THEN Raise("OverflowError", "cannot convert float infinity to integer")
    ELSE Return(IF x.n >= 0 THEN x.n \div x.d ELSE -((-x.n) \div x.d))

\* np.zeros(n) and torch.zeros(n): n zeros; a negative n raises.
zeros(n) ==
    IF n < 0 THEN Raise("ValueError", "negative dimensions are not allowed")
    ELSE Return([len |-> n, fill |-> Zero])

\* generate_silence with the length rounded to the nearest integer.
generate_silence_rounded(duration, sr) ==
    LET p == times_int(duration, sr)
        n == int_float(IF p.k = "fin" THEN Fin(2 * p.n + p.d, 2 * p.d) ELSE p)
    IN  IF n.ok THEN zeros(n.val) ELSE n

generate_silence(duration, sr) ==
    LET n == int_float(times_int(duration, sr))
    IN  IF n.ok THEN zeros(n.val) ELSE n

(***************************************************************************)
(* TCSinger2Model                                                           *)
(***************************************************************************)
sample_rate == 48000

dummy_duration == 3

Devices == { "mps", "cuda", "cpu" }

\* os.path.exists, on the paths of the model.
exists(path) == path \in { "good.ckpt", "corrupt.ckpt" }

\* torch.load succeeds on a readable checkpoint mapped to a device torch
\* knows; anything else raises.
torch_load_ok(path, map_location) ==
    path = "good.ckpt" /\ map_location \in Devices

\* nn.Module.to
module_to(m, d) == [module |-> m, device |-> d]

\* synthesize with one second of audio for each word of the notes.
synthesize_per_note(audio_prompt, text, notes, cfg_scale) ==
    LET n == int_float(Fin(sample_rate * Len(split(notes)), 1))
    IN  zeros(n.val)

\* What synthesize returns.
synthesize(audio_prompt, text, notes, cfg_scale) ==
    LET n == int_float(Fin(sample_rate * dummy_duration, 1))
    IN  zeros(n.val)

(***************************************************************************)
(* The inputs.                                                              *)
(***************************************************************************)
MaxWords == 2

MaxNameLen == 3

\* Words of a notes string: rests in several cases, near-rests, MIDI
\* numbers, note names valid and invalid, and words with non-ASCII digits.
Words ==
    { <<"r", "e", "s", "t">>, <<"R", "e", "S", "t">>, <<"r", "e", "s", "t", "s">>,
      <<"6", "0">>, <<"0", "0", "7">>, <<"C", "4">>, <<"D", "b", "5">>,
      <<"H", "9">>, <<"C">>, <<"6", "U+00B2">>, <<"U+0663", "1">>, <<"4", "c">> }

Separators == { <<" ">>, <<"\t">>, <<" ", "\n">> }

Margins == { <<>>, <<" ">> }

\* The words joined by separators, k words at most.
RECURSIVE Joined(_)
Joined(k) ==
    IF k = 0 THEN { <<>> }
    ELSE IF k = 1 THEN Words
    ELSE { j \o sep \o w : j \in Joined(k - 1) \ { <<>> }, sep \in Separators,
                           w \in Words }
         \cup Joined(k - 1)

NoteStrings ==
    { l \o j \o t : l \in Margins, j \in Joined(MaxWords) \cup { <<>> },
                    t \in Margins }

NameChars ==
    { "C", "D", "E", "F", "G", "A", "B", "H", "#", "b", "-",
      "0", "1", "2", "3", "4", "5", "6", "7", "8", "9", "U+0663", "U+00B2" }

RECURSIVE StringsOver(_, _)
StringsOver(chars, n) ==
    IF n = 0 THEN { <<>> }
    ELSE LET shorter == StringsOver(chars, n - 1)
         IN  shorter \cup { Append(s, c) : s \in shorter, c \in chars }

NoteNames == StringsOver(NameChars, MaxNameLen)

MaxSamples == 2

MaxPasses == 2

\* Samples, as signed squares: 0, 0.5, -0.5, 1, -2, 0.3, NaN and +inf.
Samples ==
    { Zero, Fin(1, 4), Fin(-1, 4), One, Fin(-4, 1), Fin(9, 100), NaN, PosInf }

RECURSIVE Buffers(_)
Buffers(n) ==
    IF n = 0 THEN { <<>> }
    ELSE LET shorter == Buffers(n - 1)
         IN  shorter \cup { Append(b, x) : b \in shorter, x \in Samples }

AudioBuffers == Buffers(MaxSamples)

\* Target levels in dB; -20 is the default.
TargetLevels == { -20, 0, 20 }

MaxDuration == 3

\* Durations in seconds: the quarters, halves and wholes up to MaxDuration
\* either side of 0 (exact as floats, and so are their products with a
\* sample rate), NaN and +inf.
Durations ==
    { Fin(n, d) : n \in -MaxDuration..MaxDuration, d \in { 1, 2, 4 } }
    \cup { NaN, PosInf }

SampleRates == { -1, 0, 1, 3, 48000 }

CheckpointPaths == { "missing.ckpt", "good.ckpt", "corrupt.ckpt" }

DeviceArgs == Devices \cup { "xyz" }

\* The arguments of synthesize.
Prompts == { <<>>, <<Fin(1, 4), Fin(-1, 4)>> }

Lyrics == { "", "la la la" }

SynthNotes ==
    { <<>>, <<"C", "4", " ", "D", "4">>, <<"6", "0">>, <<"H", "9">> }

CfgScales == { Zero, Fin(7, 2) }

(***************************************************************************)
(* The utility functions: a call of one of them on one input. The          *)
(* functions are pure, so a behaviour is one call and its result.          *)
(***************************************************************************)
\* No TCSinger2DemoApp has been constructed.
NoApp ==
    /\ temp_dir = None
    /\ req = <<>>
    /\ files = <<>>

NewModel ==
    /\ model_path = None
    /\ device = "cpu"
    /\ model = None
    /\ vae = None
    /\ vocoder = None
    /\ loaded = "new"

Init ==
    /\ pc = "call"
    /\ ret = None
    /\ NewModel
    /\ NoApp
    /\ \/ \E notes_str \in NoteStrings :
              call = [op |-> "parse_notes", notes_str |-> notes_str]
       \/ \E note_name \in NoteNames :
              call = [op |-> "note_to_midi", note_name |-> note_name]
       \/ \E audio \in AudioBuffers, target_level \in TargetLevels :
              call = [op |-> "normalize_audio", audio |-> audio,
                      target_level |-> target_level, pass |-> 1,
                      first |-> audio]
       \/ \E duration \in Durations, sr \in SampleRates :
              call = [op |-> "generate_silence", duration |-> duration,
                      sr |-> sr]

ParseNotes ==
    /\ pc = "call"
    /\ call.op = "parse_notes"
    /\ ret' = parse_notes(call.notes_str)
    /\ pc' = "done"
    /\ UNCHANGED <<call, model_fields, loaded, app_vars>>

NoteToMidi ==
    /\ pc = "call"
    /\ call.op = "note_to_midi"
    /\ ret' = note_to_midi(call.note_name)
    /\ pc' = "done"
    /\ UNCHANGED <<call, model_fields, loaded, app_vars>>

NormalizeAudio ==
    /\ pc = "call"
    /\ call.op = "normalize_audio"
    /\ ret' = normalize_audio(call.audio, call.target_level)
    /\ pc' = "done"
    /\ UNCHANGED <<call, model_fields, loaded, app_vars>>

\* normalize_audio applied again, to the buffer the last application
\* returned and with the same target level; call.first keeps the first
\* application's input.
NormalizeAgain ==
    /\ pc = "done"
    /\ call.op = "normalize_audio"
    /\ call.pass < MaxPasses
    /\ call' = [call EXCEPT !.audio = ret.val, !.pass = @ + 1]
    /\ ret' = normalize_audio(ret.val, call.target_level)
    /\ UNCHANGED <<pc, model_fields, loaded, app_vars>>

GenerateSilence ==
    /\ pc = "call"
    /\ call.op = "generate_silence"
    /\ ret' = generate_silence(call.duration, call.sr)
    /\ pc' = "done"
    /\ UNCHANGED <<call, model_fields, loaded, app_vars>>

Next ==
    \/ ParseNotes
    \/ NoteToMidi
    \/ NormalizeAudio
    \/ NormalizeAgain
    \/ GenerateSilence

Spec == Init /\ [][Next]_vars

Returned(op) == pc = "done" /\ call.op = op

(***************************************************************************)
(* The model object: constructed, then load_model, to and synthesize in    *)
(* any order.                                                               *)
(***************************************************************************)
\* __init__: model_path as given, the device _setup_device finds on the
\* machine, and no components.
ModelInit ==
    /\ pc = "done"
    /\ model_path \in { None } \cup CheckpointPaths
    /\ device \in Devices
    /\ model = None
    /\ vae = None
    /\ vocoder = None
    /\ loaded = "new"
    /\ call = [op |-> "__init__", model_path |-> model_path]
    /\ ret = Return(None)
    /\ NoApp

\* _create_placeholder_model
CreatePlaceholderModel ==
    /\ model' = None
    /\ vae' = None
    /\ vocoder' = None
    /\ loaded' = "placeholder"

\* load_model without the try around torch.load: a failed load raises.
LoadModelUnprotected(checkpoint_path) ==
    LET path == IF checkpoint_path = None THEN model_path
                ELSE checkpoint_path
    IN  /\ pc = "done"
        /\ call' = [op |-> "load_model", checkpoint_path |-> checkpoint_path]
        /\ IF path = None \/ ~exists(path)
           THEN CreatePlaceholderModel /\ ret' = Return(None)
           ELSE IF torch_load_ok(path, device)
           THEN /\ loaded' = "loaded"
                /\ ret' = Return(None)
                /\ UNCHANGED <<model, vae, vocoder>>
           ELSE /\ ret' = Raise("RuntimeError", "torch.load failed")
                /\ UNCHANGED <<model, vae, vocoder, loaded>>
        /\ UNCHANGED <<pc, model_path, device, app_vars>>

LoadModel(checkpoint_path) ==
    LET path == IF checkpoint_path = None THEN model_path
                ELSE checkpoint_path
    IN  /\ pc = "done"
        /\ call' = [op |-> "load_model", checkpoint_path |-> checkpoint_path]
        /\ ret' = Return(None)
        /\ IF path = None \/ ~exists(path)
           THEN CreatePlaceholderModel
           ELSE IF torch_load_ok(path, device)
           THEN loaded' = "loaded" /\ UNCHANGED <<model, vae, vocoder>>
           ELSE CreatePlaceholderModel
        /\ UNCHANGED <<pc, model_path, device, app_vars>>

To(dev) ==
    /\ pc = "done"
    /\ call' = [op |-> "to", device |-> dev]
    /\ device' = dev
    /\ model' = IF model # None THEN module_to(model, dev) ELSE model
    /\ vae' = IF vae # None THEN module_to(vae, dev) ELSE vae
    /\ vocoder' = IF vocoder # None THEN module_to(vocoder, dev) ELSE vocoder
    /\ ret' = Return("self")
    /\ UNCHANGED <<pc, model_path, loaded, app_vars>>

Synthesize(audio_prompt, text, notes, cfg_scale) ==
    /\ pc = "done"
    /\ call' = [op |-> "synthesize", audio_prompt |-> audio_prompt,
                text |-> text, notes |-> notes, cfg_scale |-> cfg_scale]
    /\ ret' = synthesize(audio_prompt, text, notes, cfg_scale)
    /\ UNCHANGED <<pc, model_fields, loaded, app_vars>>

ModelNext ==
    \/ \E checkpoint_path \in { None } \cup CheckpointPaths :
           LoadModel(checkpoint_path)
    \/ \E dev \in DeviceArgs : To(dev)
    \/ \E audio_prompt \in Prompts, text \in Lyrics, notes \in SynthNotes,
          cfg_scale \in CfgScales :
           Synthesize(audio_prompt, text, notes, cfg_scale)

ModelSpec == ModelInit /\ [][ModelNext]_vars

(***************************************************************************)
(* TCSinger2DemoApp: one app, and synthesize_singing requests that the UI  *)
(* hands to it. The handler is a plain method with no lock, so the steps   *)
(* of two requests interleave; a request's locals are its own, the model   *)
(* and the files under temp_dir are shared.                                *)
(***************************************************************************)
SAMPLE_RATE == 48000

Requests == { 1, 2 }

\* The audio_prompt the UI passes: no file, a readable file, an unreadable
\* one.
PromptFiles == { None, "good.wav", "bad.wav" }

AppLyrics == { <<" ">>, <<"l", "a">> }

AppNotes ==
    { <<" ">>, <<"C", "4", " ", "D", "4">>, <<"H", "9">>, <<"6", "U+00B2">> }

\* The progress values, in tenths.
Progress == [start |-> 1, load |-> 2, parse |-> 3, synthesize |-> 5,
             normalize |-> 8, save |-> 9, complete |-> 10]

\* The three input checks, in the order of the code: the message of the
\* first that fails, or None.
validate_lyrics_first(audio_prompt, lyrics, notes) ==
    IF strip(lyrics) = <<>> THEN "Please enter lyrics text"
    ELSE IF audio_prompt = None THEN "Please upload an audio prompt file"
    ELSE IF strip(notes) = <<>> THEN "Please enter musical notes"
    ELSE None

validate(audio_prompt, lyrics, notes) ==
    IF audio_prompt = None THEN "Please upload an audio prompt file"
    ELSE IF strip(lyrics) = <<>> THEN "Please enter lyrics text"
    ELSE IF strip(notes) = <<>> THEN "Please enter musical notes"
    ELSE None

\* load_audio: the samples of a readable file; librosa's error as
\* ValueError otherwise.
load_audio(audio_path, target_sr) ==
    IF audio_path = "good.wav"
    THEN Return([audio |-> <<Fin(1, 4), Fin(-1, 4)>>, sr |-> target_sr])
    ELSE Raise("ValueError", "Failed to load audio")

\* normalize_audio of a constant array [len, fill]: its mean square is that
\* of one sample, so every sample gets what normalize_audio gives the
\* one-sample array; the empty array stays empty.
normalize_filled(a, target_level) ==
    IF a.len = 0 THEN a
    ELSE [len |-> a.len,
          fill |-> normalize_audio(<<a.fill>>, target_level).val[1]]

\* os.path.join(self.temp_dir, "synthesized_output.wav"), for request r.
output_path_per_request(r) ==
    temp_dir \o "/" \o "synthesized_output_" \o ToString(r) \o ".wav"

output_path(r) == temp_dir \o "/" \o "synthesized_output.wav"

\* The pair the except clause returns.
except_result(e) ==
    [path |-> None,
     status |-> [kind |-> "error", text |-> "Error during synthesis",
                 detail |-> e.msg]]

\* The pair a failed input check returns.
invalid_result(message) ==
    [path |-> None, status |-> [kind |-> "invalid", text |-> message]]

Idle ==
    [pc |-> "idle", audio_prompt |-> None, lyrics |-> <<>>, notes |-> <<>>,
     cfg_scale |-> Zero, progress |-> <<>>, invoked |-> <<>>,
     output_audio |-> None, result |-> None]

\* load_pretrained_model(checkpoint_path=model_path): __init__ and
\* load_model(); then tempfile.mkdtemp().
AppInit ==
    /\ pc = "done"
    /\ call = [op |-> "TCSinger2DemoApp"]
    /\ ret = Return(None)
    /\ model_path \in { None, "good.ckpt" }
    /\ device \in Devices
    /\ model = None
    /\ vae = None
    /\ vocoder = None
    /\ loaded = IF model_path # None /\ exists(model_path)
                   /\ torch_load_ok(model_path, device)
                THEN "loaded" ELSE "placeholder"
    /\ temp_dir = "/tmp/tmpdir"
    /\ req = [r \in Requests |-> Idle]
    /\ files = <<>>

Frame == UNCHANGED <<pc, call, ret, model_fields, loaded, temp_dir>>

\* What a step of request r leaves the request with.
Goto(r, next, done_progress, called) ==
    [req[r] EXCEPT !.pc = next,
                   !.progress = @ \o done_progress,
                   !.invoked = @ \o called]

Finish(r, result, done_progress, called) ==
    [Goto(r, "done", done_progress, called) EXCEPT !.result = result]

\* The UI calls synthesize_singing(audio_prompt, lyrics, notes, cfg_scale).
Submit(r) ==
    /\ req[r].pc = "idle"
    /\ \E audio_prompt \in PromptFiles, lyrics \in AppLyrics,
          notes \in AppNotes :
           req' = [req EXCEPT ![r] =
                       [Idle EXCEPT !.pc = "start",
                                    !.audio_prompt = audio_prompt,
                                    !.lyrics = lyrics,
                                    !.notes = notes,
                                    !.cfg_scale = Fin(7, 2)]]
    /\ UNCHANGED files
    /\ Frame

\* progress(0.1) and the input checks.
Validate(r) ==
    /\ req[r].pc = "start"
    /\ LET message == validate(req[r].audio_prompt, req[r].lyrics,
                               req[r].notes)
       IN  req' = [req EXCEPT ![r] =
                       IF message # None
                       THEN Finish(r, invalid_result(message),
                                   <<Progress.start>>, <<>>)
                       ELSE Goto(r, "load", <<Progress.start>>, <<>>)]
    /\ UNCHANGED files
    /\ Frame

\* progress(0.2), load_audio and audio_to_tensor.
LoadAudio(r) ==
    /\ req[r].pc = "load"
    /\ LET loaded_audio == load_audio(req[r].audio_prompt, SAMPLE_RATE)
       IN  req' = [req EXCEPT ![r] =
                       IF loaded_audio.ok
                       THEN Goto(r, "parse", <<Progress.load>>,
                                 <<"load_audio">>)
                       ELSE Finish(r, except_result(loaded_audio),
                                   <<Progress.load>>, <<"load_audio">>)]
    /\ UNCHANGED files
    /\ Frame

\* progress(0.3) and parse_notes; the parsed notes are used no further.
ParseStep(r) ==
    /\ req[r].pc = "parse"
    /\ LET parsed_notes == parse_notes(req[r].notes)
       IN  req' = [req EXCEPT ![r] =
                       IF parsed_notes.ok
                       THEN Goto(r, "synthesize", <<Progress.parse>>,
                                 <<"parse_notes">>)
                       ELSE Finish(r, except_result(parsed_notes),
                                   <<Progress.parse>>, <<"parse_notes">>)]
    /\ UNCHANGED files
    /\ Frame

\* progress(0.5) and self.model.synthesize, given the raw notes string.
SynthesizeStep(r) ==
    /\ req[r].pc = "synthesize"
    /\ LET output_tensor ==
               synthesize(load_audio(req[r].audio_prompt, SAMPLE_RATE).val.audio,
                          req[r].lyrics, req[r].notes, req[r].cfg_scale)
       IN  req' = [req EXCEPT ![r] =
                       IF output_tensor.ok
                       THEN [Goto(r, "normalize", <<Progress.synthesize>>,
                                  <<"synthesize">>)
                                EXCEPT !.output_audio = output_tensor.val]
                       ELSE Finish(r, except_result(output_tensor),
                                   <<Progress.synthesize>>, <<"synthesize">>)]
    /\ UNCHANGED files
    /\ Frame

\* progress(0.8), tensor_to_audio and normalize_audio at the default level.
NormalizeStep(r) ==
    /\ req[r].pc = "normalize"
    /\ req' = [req EXCEPT ![r] =
                   [Goto(r, "save", <<Progress.normalize>>,
                         <<"normalize_audio">>)
                      EXCEPT !.output_audio = normalize_filled(@, -20)]]
    /\ UNCHANGED files
    /\ Frame

\* progress(0.9) and the start of save_audio: sf.write opens output_path
\* and truncates it, or fails to (the ValueError of save_audio).
SaveBegin(r) ==
    /\ req[r].pc = "save"
    /\ \/ /\ req' = [req EXCEPT ![r] =
                         Goto(r, "writing", <<Progress.save>>,
                              <<"save_audio">>)]
          /\ files' = (output_path(r) :> [by |-> r, complete |-> FALSE,
                                          mixed |-> FALSE]) @@ files
       \/ /\ req' = [req EXCEPT ![r] =
                         Finish(r, except_result(Raise("ValueError",
                                                       "Failed to save audio")),
                                <<Progress.save>>, <<"save_audio">>)]
          /\ UNCHANGED files
    /\ Frame

\* The rest of save_audio: the samples are written and the file closed. If
\* another request has truncated the file since, the file holds a mix.
SaveEnd(r) ==
    /\ req[r].pc = "writing"
    /\ req' = [req EXCEPT ![r] = Goto(r, "complete", <<>>, <<>>)]
    /\ files' = [files EXCEPT ![output_path(r)] =
                     IF @.by = r THEN [@ EXCEPT !.complete = TRUE]
                     ELSE [@ EXCEPT !.mixed = TRUE]]
    /\ Frame

\* progress(1.0), the status text and return output_path, status.
Complete(r) ==
    /\ req[r].pc = "complete"
    /\ req' = [req EXCEPT ![r] =
                   Finish(r,
                          [path |-> output_path(r),
                           status |-> [kind |-> "complete",
                                       text |-> "Synthesis Complete!",
                                       lyrics |-> req[r].lyrics,
                                       notes |-> req[r].notes,
                                       cfg_scale |-> req[r].cfg_scale,
                                       device |-> device,
                                       seconds |-> Fin(req[r].output_audio.len,
                                                       SAMPLE_RATE)]],
                          <<Progress.complete>>, <<>>)]
    /\ UNCHANGED files
    /\ Frame

AppNext ==
    \E r \in Requests :
        \/ Submit(r)
        \/ Validate(r)
        \/ LoadAudio(r)
        \/ ParseStep(r)
        \/ SynthesizeStep(r)
        \/ NormalizeStep(r)
        \/ SaveBegin(r)
        \/ SaveEnd(r)
        \/ Complete(r)

AppSpec == AppInit /\ [][AppNext]_vars

Done(r) == req[r].pc = "done"

(***************************************************************************)
(* The words of a string, read off its characters: a word starts at a      *)
(* character that is not white space and is first or follows white space,  *)
(* and runs to the character before the next white space.                  *)
(***************************************************************************)
WordStarts(s) ==
    { i \in 1..Len(s) : ~isspace(s[i]) /\ (i = 1 \/ isspace(s[i - 1])) }

NthWord(s, n) ==
    LET i == CHOOSE k \in WordStarts(s) :
                 Cardinality({ j \in WordStarts(s) : j <= k }) = n
        e == CHOOSE k \in i..Len(s) :
                 /\ \A j \in i..k : ~isspace(s[j])
                 /\ (k = Len(s) \/ isspace(s[k + 1]))
    IN  SubSeq(s, i, e)

AllDecimal(w) == Len(w) > 0 /\ \A i \in 1..Len(w) : isdecimal_char(w[i])

\* The tokens a word can give under any of the three rules.
TokensOf(w) ==
    { [type |-> "name", value |-> w] }
    \cup (IF lower(w) = REST THEN { [type |-> "rest"] } ELSE {})
    \cup (IF AllDecimal(w)
          THEN { [type |-> "midi", value |-> decimal_value(w)] } ELSE {})

\* The token the three rules give a word, in their priority order.
Classified(w) ==
    IF lower(w) = REST THEN [type |-> "rest"]
    ELSE IF AllDecimal(w) THEN [type |-> "midi", value |-> decimal_value(w)]
    ELSE [type |-> "name", value |-> w]

\* C1: parse_notes returns, for every input string, as many tokens as the
\* string has white-space-delimited words, the i-th token derived from the
\* i-th word.
C1_OneTokenPerWord ==
    Returned("parse_notes") =>
        /\ ret.ok
        /\ Len(ret.val) = Cardinality(WordStarts(call.notes_str))
        /\ \A n \in 1..Len(ret.val) :
               ret.val[n] \in TokensOf(NthWord(call.notes_str, n))

\* What C1 says of the calls that return: the count and the order of the
\* tokens are those of the words.
C1_WhenReturned ==
    (Returned("parse_notes") /\ ret.ok) =>
        /\ Len(ret.val) = Cardinality(WordStarts(call.notes_str))
        /\ \A n \in 1..Len(ret.val) :
               ret.val[n] \in TokensOf(NthWord(call.notes_str, n))

\* C2: each word is classified by the first rule that matches: "rest" in
\* any case gives a rest, else all decimal digits gives the MIDI number,
\* else the word itself as a note name; a word's token depends on that
\* word alone.
C2_ClassifiedByPriority ==
    Returned("parse_notes") =>
        /\ ret.ok
        /\ Len(ret.val) = Cardinality(WordStarts(call.notes_str))
        /\ \A n \in 1..Len(ret.val) :
               ret.val[n] = Classified(NthWord(call.notes_str, n))

\* What C2 says of the calls that return.
C2_WhenReturned ==
    (Returned("parse_notes") /\ ret.ok) =>
        \A n \in 1..Len(ret.val) :
            ret.val[n] = Classified(NthWord(call.notes_str, n))

\* C3: parse_notes is total: it returns a token sequence for every input
\* string and never raises.
C3_ParseNeverRaises == Returned("parse_notes") => ret.ok

\* parse_notes raises exactly when a word passes isdigit and holds a
\* character that is not a decimal digit.
C3_RaisesExactly ==
    Returned("parse_notes") =>
        (~ret.ok <=>
            \E n \in 1..Cardinality(WordStarts(call.notes_str)) :
                LET w == NthWord(call.notes_str, n)
                IN  isdigit(w) /\ ~AllDecimal(w))

\* The pitch-class table of the claims: <<spelling, offset>>.
PitchClasses ==
    { <<(<<"C">>), 0>>, <<(<<"C", "#">>), 1>>, <<(<<"D", "b">>), 1>>,
      <<(<<"D">>), 2>>, <<(<<"D", "#">>), 3>>, <<(<<"E", "b">>), 3>>,
      <<(<<"E">>), 4>>, <<(<<"F">>), 5>>, <<(<<"F", "#">>), 6>>,
      <<(<<"G", "b">>), 6>>, <<(<<"G">>), 7>>, <<(<<"G", "#">>), 8>>,
      <<(<<"A", "b">>), 8>>, <<(<<"A">>), 9>>, <<(<<"A", "#">>), 10>>,
      <<(<<"B", "b">>), 10>>, <<(<<"B">>), 11>> }

\* C4: a table spelling followed by one octave digit d in 0..9 gives
\* offset + (d + 1) * 12, so C4 is 60, A4 is 69 and enharmonic spellings
\* of one octave give the same number.
C4_MidiFormula ==
    Returned("note_to_midi") =>
        \A e \in PitchClasses, d \in 0..9 :
            call.note_name = e[1] \o <<AsciiDigits[d + 1]>> =>
                ret.ok /\ ret.val = e[2] + (d + 1) * 12

C4_Witness ==
    /\ Returned("note_to_midi")
    /\ call.note_name = <<"D", "b", "4">>
    /\ ret.ok
    /\ ret.val = 61

\* The characters that are an octave digit: the decimal digits.
OctaveDigits == { AsciiDigits[i] : i \in 1..10 } \cup { "U+0663" }

\* The outcome the ordered checks of C5 give a name.
Outcome(name) ==
    IF Len(name) < 2 THEN "Invalid note name"
    ELSE IF name[Len(name)] \notin OctaveDigits
    THEN "Invalid octave in note name"
    ELSE IF \A e \in PitchClasses : e[1] # SubSeq(name, 1, Len(name) - 1)
    THEN "Invalid note"
    ELSE "ok"

\* C5: note_to_midi has exactly one outcome, decided in this order: too
\* short, then octave not an integer, then spelling not in the table, else
\* success; it succeeds exactly on a table spelling followed by one digit.
C5_OrderedOutcomes ==
    Returned("note_to_midi") =>
        /\ ret.ok <=> Outcome(call.note_name) = "ok"
        /\ ~ret.ok =>
               ret.exc = "ValueError" /\ ret.msg = Outcome(call.note_name)
        /\ ret.ok <=>
               \E e \in PitchClasses, c \in OctaveDigits :
                   call.note_name = e[1] \o <<c>>

C5_Witness ==
    /\ Returned("note_to_midi")
    /\ call.note_name = <<"H", "9">>
    /\ ~ret.ok
    /\ ret.msg = "Invalid note"

InUnitRange(x) == x.k = "fin" /\ -x.d <= x.n /\ x.n <= x.d

AllFinite(audio) == \A i \in 1..Len(audio) : IsFinite(audio[i])

\* C6: every sample normalize_audio returns lies in [-1, 1], for every
\* input buffer and every target level.
C6_OutputInUnitRange ==
    Returned("normalize_audio") =>
        ret.ok /\ \A i \in 1..Len(ret.val) : InUnitRange(ret.val[i])

\* What C6 says of the buffers whose samples are all finite.
C6_FiniteInputs ==
    (Returned("normalize_audio") /\ AllFinite(call.audio)) =>
        ret.ok /\ \A i \in 1..Len(ret.val) : InUnitRange(ret.val[i])

\* The RMS of a buffer is 0: it has samples and they are all 0.
Silent(audio) == Len(audio) > 0 /\ \A i \in 1..Len(audio) : audio[i] = Zero

\* C7: when the RMS of the input is 0, normalize_audio raises nothing and
\* returns the input unchanged, sample for sample.
C7_SilenceUnchanged ==
    (Returned("normalize_audio") /\ Silent(call.audio)) =>
        /\ ret.ok
        /\ Len(ret.val) = Len(call.audio)
        /\ \A i \in 1..Len(ret.val) : ret.val[i] = call.audio[i]

C7_Witness ==
    /\ Returned("normalize_audio")
    /\ call.audio = <<Zero, Zero>>
    /\ ret.ok
    /\ ret.val = <<Zero, Zero>>

NonSilent(audio) == \E i \in 1..Len(audio) : audio[i] # Zero

Unclipped(audio, target_level) ==
    LET ms == mean_square(audio)
    IN  \A i \in 1..Len(audio) :
            LET y == Fin(audio[i].n * Pow10(target_level \div 10).n * ms.d,
                         audio[i].d * Pow10(target_level \div 10).d * ms.n)
            IN  -y.d <= y.n /\ y.n <= y.d

C9_FloorOfProduct ==
    (Returned("generate_silence") /\ IsFinite(call.duration)) =>
        /\ ret.ok
        /\ ret.val.len = (call.duration.n * call.sr) \div call.duration.d
        /\ ret.val.fill = Zero

\* C9 as amended: for a finite duration and a sample rate whose product is
\* not negative, generate_silence returns floor(duration * sr) samples,
\* each 0.
C9_FloorOfNonNegativeProduct ==
    ( /\ Returned("generate_silence")
      /\ IsFinite(call.duration)
      /\ call.duration.n * call.sr >= 0 ) =>
        /\ ret.ok
        /\ ret.val.len = (call.duration.n * call.sr) \div call.duration.d
        /\ ret.val.fill = Zero

C9_Witness ==
    /\ Returned("generate_silence")
    /\ call.duration = Fin(1, 1)
    /\ call.sr = 48000
    /\ ret.ok
    /\ ret.val.len = 48000
    /\ ret.val.fill = Zero

\* What generate_silence does with the other inputs: a product in (-1, 0)
\* gives the empty buffer, a product <= -1 raises ValueError, NaN raises
\* ValueError and an infinity raises OverflowError.
C9_OtherInputs ==
    Returned("generate_silence") =>
        LET x == call.duration
        IN  /\ (x.k = "fin" /\ x.n * call.sr < 0 /\ -(x.n * call.sr) < x.d)
                   => ret.ok /\ ret.val.len = 0
            /\ (x.k = "fin" /\ -(x.n * call.sr) >= x.d)
                   => ~ret.ok /\ ret.exc = "ValueError"
            /\ x.k = "nan" => ~ret.ok /\ ret.exc = "ValueError"
            /\ (x.k = "inf" /\ call.sr # 0)
                   => ~ret.ok /\ ret.exc = "OverflowError"
            /\ (x.k = "inf" /\ call.sr = 0)
                   => ~ret.ok /\ ret.exc = "ValueError"

ResolvedPath ==
    IF call.checkpoint_path = None THEN model_path ELSE call.checkpoint_path

LoadFails ==
    \/ ResolvedPath \in { None, "missing.ckpt", "corrupt.ckpt" }
    \/ device \notin { "mps", "cuda", "cpu" }

\* C12: load_model never propagates an error: with the checkpoint absent,
\* missing or unloadable it falls back to the placeholder and returns; the
\* three components are None after any sequence of load_model and to; and
\* load_model leaves model_path and device unchanged.
C12_LoadNeverPropagates ==
    /\ [](model = None /\ vae = None /\ vocoder = None)
    /\ [](Returned("load_model") =>
              /\ ret.ok
              /\ LoadFails => loaded = "placeholder"
              /\ ~LoadFails => loaded = "loaded")
    /\ [][call'.op = "load_model" => UNCHANGED <<model_path, device>>]_vars

C12_Witness ==
    /\ Returned("load_model")
    /\ call.checkpoint_path = "corrupt.ckpt"
    /\ model_path = "good.ckpt"
    /\ device = "xyz"
    /\ ret.ok
    /\ loaded = "placeholder"

\* A notes string holds a note name that note_to_midi rejects: a word that
\* is neither a rest nor a number and that note_to_midi raises on.
HasRejectedNote(notes) ==
    \E n \in 1..Cardinality(WordStarts(notes)) :
        LET w == NthWord(notes, n)
        IN  /\ lower(w) # REST
            /\ ~isdigit(w)
            /\ ~note_to_midi(w).ok

\* C11: in synthesize_singing a notes input with a word note_to_midi
\* rejects is a recoverable error: the call returns, and its status reports
\* the invalid note instead of a successful synthesis.
C11_InvalidNoteReported ==
    \A r \in Requests :
        (Done(r) /\ HasRejectedNote(req[r].notes)) =>
            /\ req[r].result.path = None
            /\ req[r].result.status.kind # "complete"

\* synthesize_singing never calls note_to_midi: a request that passes the
\* input checks, loads its prompt and saves its output succeeds whatever
\* note names it holds.
C11_NamesNeverConverted ==
    \A r \in Requests :
        /\ \A i \in 1..Len(req[r].invoked) : req[r].invoked[i] # "note_to_midi"
        /\ (Done(r) /\ req[r].notes = <<"H", "9">>
                /\ Len(req[r].invoked) = 5
                /\ req[r].result.status.kind # "error") =>
               req[r].result.status.kind = "complete"

Blank(s) == \A i \in 1..Len(s) : isspace(s[i])

AllSteps ==
    <<"load_audio", "parse_notes", "synthesize", "normalize_audio",
      "save_audio">>

\* C13: synthesize_singing always returns a pair (path, status). The inputs
\* are checked in the order audio prompt, lyrics, notes, and the first
\* failing check returns (None, its message) with no step invoked; a
\* failure of a later step returns (None, error message); a path is
\* returned only after load, parse, synthesize, normalize and save in that
\* order, and progress 1.0 is reported only then.
C13_ValidateThenSteps ==
    \A r \in Requests :
        /\ Done(r) =>
               LET q == req[r]
                   res == q.result
               IN  /\ q.audio_prompt = None =>
                          /\ res = [path |-> None,
                                    status |-> [kind |-> "invalid",
                                                text |-> "Please upload an audio prompt file"]]
                          /\ q.invoked = <<>>
                   /\ (q.audio_prompt # None /\ Blank(q.lyrics)) =>
                          /\ res = [path |-> None,
                                    status |-> [kind |-> "invalid",
                                                text |-> "Please enter lyrics text"]]
                          /\ q.invoked = <<>>
                   /\ (q.audio_prompt # None /\ ~Blank(q.lyrics)
                           /\ Blank(q.notes)) =>
                          /\ res = [path |-> None,
                                    status |-> [kind |-> "invalid",
                                                text |-> "Please enter musical notes"]]
                          /\ q.invoked = <<>>
                   /\ (q.audio_prompt # None /\ ~Blank(q.lyrics)
                           /\ ~Blank(q.notes)) =>
                          /\ res.status.kind \in { "error", "complete" }
                          /\ q.invoked # <<>>
                   /\ res.status.kind = "error" =>
                          /\ res.path = None
                          /\ res.status.text = "Error during synthesis"
                   /\ res.path # None <=> res.status.kind = "complete"
                   /\ res.path # None =>
                          /\ q.invoked = AllSteps
                          /\ q.progress = <<1, 2, 3, 5, 8, 9, 10>>
        /\ (\E i \in 1..Len(req[r].progress) : req[r].progress[i] = 10) =>
               Done(r) /\ req[r].result.path # None

C13_Witness ==
    /\ Done(1)
    /\ req[1].result.path # None
    /\ req[1].invoked = AllSteps
    /\ Done(2)
    /\ req[2].audio_prompt = None
    /\ Blank(req[2].lyrics)
    /\ req[2].result.status.text = "Please upload an audio prompt file"

\* C14: every successful synthesize_singing call of one app returns, and
\* writes to, the same path temp_dir/synthesized_output.wav; no request has
\* a file of its own.
C14_OneSharedOutputPath ==
    /\ \A r \in Requests :
           (Done(r) /\ req[r].result.path # None) =>
               req[r].result.path = temp_dir \o "/synthesized_output.wav"
    /\ DOMAIN files \subseteq { temp_dir \o "/synthesized_output.wav" }

\* The first request has returned its path, and the file of that path is
\* the one the second request truncated while the first was writing it and
\* is still writing.
C14_Witness ==
    /\ Done(1)
    /\ req[1].result.path # None
    /\ req[2].pc = "writing"
    /\ files[req[1].result.path].by = 2
    /\ ~files[req[1].result.path].complete
    /\ files[req[1].result.path].mixed

\* The first request has returned its path, and the second request has
\* since written the file of that path anew.
C14_Overwritten ==
    /\ Done(1)
    /\ req[1].result.path # None
    /\ Done(2)
    /\ req[2].notes # req[1].notes
    /\ files[req[1].result.path].by = 2
    /\ files[req[1].result.path].complete

====
